---------------------------- MODULE Spec2Model ----------------------------
(***************************************************************************)
(* A model of fileReader.go: main, asyncReadFile and readChunk.            *)
(*                                                                         *)
(* asyncReadFile splits a file into chunks of asyncChunkSize bytes, then   *)
(* for every chunk registers it with the global WaitGroup wg, sends a      *)
(* token into the buffered channel gochannel (capacity runtime.NumCPU())   *)
(* and starts a goroutine readChunk.  readChunk performs one ReadAt; on    *)
(* nil or io.EOF it receives a token from gochannel and calls wg.Done; on  *)
(* any other error it logs the error and returns.  asyncReadFile then      *)
(* blocks in wg.Wait.                                                      *)
(*                                                                         *)
(* Go's int is taken to be 64 bits wide (a 64-bit build): every quantity   *)
(* of the plan is bounded by the file size, an int64, so no arithmetic of  *)
(* the plan wraps and the integers are modelled unbounded.                 *)
(***************************************************************************)
EXTENDS Integers, Sequences, FiniteSets

(***************************************************************************)
(* Bounds of the model.                                                    *)
(***************************************************************************)
\* the largest number of chunks a file of the concurrent model has
MaxChunks == 5
\* the largest value runtime.NumCPU() takes
MaxCPU == 2
\* how many times asyncReadFile is invoked at most
MaxCalls == 2
\* inputs of the plan-only specification (PlanSpec)
MaxPlanFileSize == 14
MaxPlanChunkSize == 5

(***************************************************************************)
(* Program constants.                                                      *)
(***************************************************************************)
\* const asyncChunkSize = 1024 * 1024
asyncChunkSize == 1024 * 1024

VARIABLES
    proc,         \* the process: "running", or "exited" after log.Fatal
    calls,        \* how many times asyncReadFile has been invoked
    pc,           \* where the orchestrating flow is (see the actions)
    fileSize,     \* the size of the file on disk (fileStats.Size())
    chunkSize,    \* the chunk size of the build (asyncChunkSize)
    NumCPU,       \* runtime.NumCPU()
    e,            \* asyncReadFile's e: the error of file.Stat()
    filesize,     \* asyncReadFile's filesize
    concurrency,  \* asyncReadFile's concurrency
    chunkOffset,  \* asyncReadFile's chunkOffset; chunkOffset[k+1] is Go's chunkOffset[k]
    i,            \* asyncReadFile's loop index of the dispatch loop
    gochannel,    \* the buffered channel: the sequence of tokens it holds
    wg,           \* the counter of the global sync.WaitGroup
    wpc,          \* wpc[k]: where goroutine readChunk(.., k) is
    werr,         \* werr[k]: readChunk's _err, the error of its ReadAt
    wn,           \* wn[k]: the number of bytes its ReadAt obtained
    woff,         \* woff[k]: the offset its ReadAt was given
    recvs,        \* recvs[k]: how many times goroutine k received from gochannel
    dones,        \* dones[k]: how many times goroutine k called wg.Done
    logged,       \* what log.Println has printed: <<"Stat", 0>>, <<"ReadAt", k>>
    wlen,         \* wlen[k]: the length of the buffer its ReadAt was given
    reads,        \* reads[k]: how many times goroutine k called ReadAt
    registered,   \* how many times this call of asyncReadFile has called wg.Add(1)
    sends,        \* how many times this call has sent to gochannel
    dispatched,   \* the offsets this call has started a goroutine for, in order
    runs          \* one record for every call of asyncReadFile that has returned

vars == <<proc, calls, pc, fileSize, chunkSize, NumCPU, e, filesize, concurrency,
          chunkOffset, i, gochannel, wg, wpc, werr, wn, woff, recvs, dones, logged,
          wlen, reads, registered, sends, dispatched, runs>>

\* the frame of the orchestrating flow's locals
locals == <<e, filesize, concurrency, chunkOffset, i>>
\* the state of the goroutines
workers == <<wpc, werr, wn, woff, recvs, dones, wlen, reads>>
\* what the dispatch loop has done so far
counts == <<registered, sends, dispatched>>
\* the environment: the file, the build and the machine
env == <<fileSize, chunkSize, NumCPU>>

\* the indices a goroutine can have (Go's i of readChunk)
Indices == 0 .. (MaxChunks - 1)

\* the file sizes of the concurrent model: empty, whole chunks, and a short last
\* chunk (2500000 bytes is two whole chunks and 402848 bytes)
FileSizes ==
    {0} \cup { k * asyncChunkSize : k \in 1 .. MaxChunks }
        \cup { (k - 1) * asyncChunkSize + (2500000 % asyncChunkSize) : k \in 1 .. MaxChunks }

(***************************************************************************)
(* The chunk plan (asyncReadFile, lines 66-85).                            *)
(***************************************************************************)
\* a plan that forgets the left-over bytes (no concurrency++)
ConcurrencyNoLeftOver(size, chunk) == size \div chunk

\* a plan that always adds one more goroutine
ConcurrencyAlwaysExtra(size, chunk) == (size \div chunk) + 1

\* concurrency := filesize / asyncChunkSize; if filesize%asyncChunkSize != 0 { concurrency++ }
\* (Go's / and % on non-negative operands are \div and %)
Concurrency(size, chunk) ==
    IF size % chunk # 0 THEN (size \div chunk) + 1 ELSE size \div chunk

\* chunkOffset := make([]int64, concurrency); chunkOffset[i] = int64(asyncChunkSize * i)
ChunkOffsets(n, chunk) == [ k \in 1 .. n |-> chunk * (k - 1) ]

(***************************************************************************)
(* os.File.ReadAt(b, off) on a file of `size` bytes with len(b) = length,  *)
(* when the device reports no error: it fills b unless the file ends       *)
(* first, and then returns io.EOF.                                         *)
(***************************************************************************)
ReadAt(size, off, length) ==
    IF off >= size THEN [n |-> 0, err |-> "EOF"]
    ELSE IF off + length > size THEN [n |-> size - off, err |-> "EOF"]
    ELSE [n |-> length, err |-> "nil"]

\* a test that takes io.EOF for a failure: _err != nil
IsFailureOnEOF(err) == err # "nil"

\* readChunk's test: _err != nil && _err != io.EOF
IsFailure(err) == err # "nil" /\ err # "EOF"

\* a loop that stops one round early
LoopPcEarlyExit(j, n) == IF j < n - 1 THEN "Add" ELSE "Wait"

\* where the dispatch loop goes when its index is j: for i := 0; i < concurrency; i++
LoopPc(j, n) == IF j < n THEN "Add" ELSE "Wait"

(***************************************************************************)
(* Initial states: the process has started, asyncReadFile has not been     *)
(* called yet, no goroutine exists, wg is the zero WaitGroup.              *)
(***************************************************************************)
\* no goroutine has been started
NoPc == [k \in Indices |-> "none"]
NoErr == [k \in Indices |-> "nil"]
Zeros == [k \in Indices |-> 0]

NoWorkers ==
    /\ wpc = NoPc
    /\ werr = NoErr
    /\ wn = Zeros
    /\ woff = Zeros
    /\ recvs = Zeros
    /\ dones = Zeros
    /\ wlen = Zeros
    /\ reads = Zeros

InitRest ==
    /\ proc = "running"
    /\ calls = 0
    /\ pc = "idle"
    /\ e = "nil"
    /\ filesize = 0
    /\ concurrency = 0
    /\ chunkOffset = <<>>
    /\ i = 0
    /\ gochannel = <<>>
    /\ wg = 0
    /\ NoWorkers
    /\ logged = {}
    /\ registered = 0
    /\ sends = 0
    /\ dispatched = <<>>
    /\ runs = <<>>

Init ==
    /\ fileSize \in FileSizes
    /\ chunkSize = asyncChunkSize
    /\ NumCPU \in 1 .. MaxCPU
    /\ InitRest

(***************************************************************************)
(* main                                                                    *)
(***************************************************************************)
\* lines 36-45: no file name, or the file cannot be opened: log.Fatal ends the process
MainFatal ==
    /\ proc = "running" /\ pc = "idle" /\ calls = 0
    /\ proc' = "exited"
    /\ UNCHANGED <<calls, pc, env, locals, gochannel, wg, workers, logged, counts, runs>>

\* line 54 (and any later call): asyncReadFile(file) is entered; its locals are
\* fresh, the goroutines of an earlier call have all ended, wg is the global
Invoke ==
    /\ proc = "running" /\ pc \in {"idle", "ret"} /\ calls < MaxCalls
    /\ calls' = calls + 1
    /\ pc' = "Stat"
    /\ e' = "nil" /\ filesize' = 0 /\ concurrency' = 0 /\ chunkOffset' = <<>> /\ i' = 0
    /\ gochannel' = <<>>
    /\ wpc' = NoPc /\ werr' = NoErr
    /\ wn' = Zeros /\ woff' = Zeros /\ recvs' = Zeros /\ dones' = Zeros
    /\ wlen' = Zeros /\ reads' = Zeros
    /\ registered' = 0 /\ sends' = 0 /\ dispatched' = <<>>
    /\ UNCHANGED <<proc, env, wg, logged, runs>>

(***************************************************************************)
(* asyncReadFile                                                           *)
(***************************************************************************)
\* how many goroutines of this call have called wg.Done
RECURSIVE DoneUpTo(_, _)
DoneUpTo(d, n) == IF n = 0 THEN 0 ELSE d[n - 1] + DoneUpTo(d, n - 1)

\* what a call leaves behind when it returns: whether it got past file.Stat,
\* its plan, and how many of its goroutines have completed
RunRecord(err, plan, d) ==
    [planned |-> err = "nil", plan |-> plan, completed |-> DoneUpTo(d, MaxChunks)]

\* a failure of file.Stat() that ends the process: log.Fatal(e)
StatFailsFatal ==
    /\ e' = "err"
    /\ logged' = logged \cup {<<"Stat", 0>>}
    /\ proc' = "exited"
    /\ UNCHANGED <<calls, pc, env, filesize, concurrency, chunkOffset, i,
                   gochannel, wg, workers, counts, runs>>

\* lines 60-64, file.Stat() fails: log.Println(e); return
StatFails ==
    /\ e' = "err"
    /\ logged' = logged \cup {<<"Stat", 0>>}
    /\ pc' = "ret"
    /\ runs' = Append(runs, RunRecord("err", chunkOffset, dones))
    /\ UNCHANGED <<proc, calls, env, filesize, concurrency, chunkOffset, i,
                   gochannel, wg, workers, counts>>

\* lines 60-66, file.Stat() succeeds: filesize := int(fileStats.Size())
StatOk ==
    /\ e' = "nil"
    /\ filesize' = fileSize
    /\ pc' = "plan"
    /\ UNCHANGED <<proc, calls, env, concurrency, chunkOffset, i,
                   gochannel, wg, workers, logged, counts, runs>>

Stat ==
    /\ proc = "running" /\ pc = "Stat"
    /\ \/ StatFails
       \/ StatOk

\* lines 69-88 and the loop's i := 0: the plan and the channel
Plan ==
    /\ proc = "running" /\ pc = "plan"
    /\ concurrency' = Concurrency(filesize, chunkSize)
    /\ chunkOffset' = ChunkOffsets(concurrency', chunkSize)
    /\ gochannel' = <<>>
    /\ i' = 0
    /\ pc' = LoopPc(0, concurrency')
    /\ UNCHANGED <<proc, calls, env, e, filesize, wg, workers, logged, counts, runs>>

\* an Add that leaves the counter as it is
WgAddNothing(counter) == counter

\* the counter after wg.Add(1)
WgAdd(counter) == counter + 1

\* line 103: wg.Add(1)
Add ==
    /\ proc = "running" /\ pc = "Add"
    /\ wg' = WgAdd(wg)
    /\ registered' = registered + 1
    /\ pc' = "Send"
    /\ UNCHANGED <<proc, calls, env, locals, gochannel, workers, logged,
                   sends, dispatched, runs>>

\* a send that never blocks (an unbounded channel)
CanSendAlways(ch, cap) == TRUE

\* a send on the buffered channel proceeds when it holds fewer than cap tokens
CanSend(ch, cap) == Len(ch) < cap

\* a send that puts no token into the channel
ChanSendNothing(ch) == ch

\* the channel after gochannel <- 1
ChanSend(ch) == Append(ch, 1)

\* line 104: gochannel <- 1 (blocks while the channel is full)
Send ==
    /\ proc = "running" /\ pc = "Send"
    /\ CanSend(gochannel, NumCPU)
    /\ gochannel' = ChanSend(gochannel)
    /\ sends' = sends + 1
    /\ pc' = "Go"
    /\ UNCHANGED <<proc, calls, env, locals, wg, workers, logged,
                   registered, dispatched, runs>>

\* a dispatch that walks the plan from its end
SpawnIndexReversed(j, n) == n - 1 - j

\* a dispatch that hands every goroutine the first index
SpawnIndexStuck(j, n) == 0

\* the index handed to the goroutine started in round j of the loop: readChunk(.., i)
SpawnIndex(j, n) == j

\* line 105 and the loop's i++: go readChunk(gochannel, file, chunkOffset, i)
Go ==
    /\ proc = "running" /\ pc = "Go"
    /\ wpc' = [wpc EXCEPT ![SpawnIndex(i, concurrency)] = "ReadAt"]
    /\ dispatched' = Append(dispatched, chunkOffset[SpawnIndex(i, concurrency) + 1])
    /\ i' = i + 1
    /\ pc' = LoopPc(i', concurrency)
    /\ UNCHANGED <<proc, calls, env, e, filesize, concurrency, chunkOffset,
                   gochannel, wg, werr, wn, woff, recvs, dones, logged,
                   wlen, reads, registered, sends, runs>>

\* a wait that does not wait
CanPassWaitAlways(counter) == TRUE

\* a wait that returns with one goroutine still outstanding
CanPassWaitEarly(counter) == counter <= 1

\* wg.Wait returns when the counter is zero
CanPassWait(counter) == counter = 0

\* line 108: wg.Wait(), then the return of line 109
Wait ==
    /\ proc = "running" /\ pc = "Wait"
    /\ CanPassWait(wg)
    /\ pc' = "ret"
    /\ runs' = Append(runs, RunRecord(e, chunkOffset, dones))
    /\ UNCHANGED <<proc, calls, env, locals, gochannel, wg, workers, logged, counts>>

asyncReadFile == Stat \/ Plan \/ Add \/ Send \/ Go \/ Wait

(***************************************************************************)
(* readChunk, goroutine k                                                  *)
(***************************************************************************)
\* lines 115-118 after a ReadAt that returned err: where the goroutine goes
AfterRead(err) == IF IsFailure(err) THEN "errret" ELSE "Recv"

\* a buffer one byte short of the chunk
ReadLengthShort(chunk) == chunk - 1

\* the length of the buffer of line 113: make([]byte, asyncChunkSize)
ReadLength(chunk) == chunk

\* lines 113-118: file.ReadAt(make([]byte, asyncChunkSize), chunkOffset[i]) and the
\* test of its error.  The device may fail the read with an error other than
\* io.EOF (bytes obtained: none); otherwise the file decides the result.
ReadChunkRead(k) ==
    /\ proc = "running" /\ wpc[k] = "ReadAt"
    /\ \E r \in {ReadAt(fileSize, chunkOffset[k + 1], ReadLength(chunkSize)),
                 [n |-> 0, err |-> "err"]} :
          /\ werr' = [werr EXCEPT ![k] = r.err]
          /\ wn' = [wn EXCEPT ![k] = r.n]
          /\ woff' = [woff EXCEPT ![k] = chunkOffset[k + 1]]
          /\ wlen' = [wlen EXCEPT ![k] = ReadLength(chunkSize)]
          /\ reads' = [reads EXCEPT ![k] = @ + 1]
          /\ wpc' = [wpc EXCEPT ![k] = AfterRead(r.err)]
          /\ logged' = IF IsFailure(r.err) THEN logged \cup {<<"ReadAt", k>>} ELSE logged
    /\ UNCHANGED <<proc, calls, pc, env, locals, gochannel, wg, recvs, dones, counts, runs>>

\* a receive on the channel proceeds when it holds a token
CanRecv(ch) == Len(ch) > 0

\* a receive that leaves its token in the channel
ChanRecvKeeps(ch) == ch

\* the channel after <-gochannel
ChanRecv(ch) == Tail(ch)

\* a release that waits for the goroutines of all lower indices to release first
ReadChunkRecvInOrder(k) ==
    /\ proc = "running" /\ wpc[k] = "Recv"
    /\ \A j \in 0 .. (k - 1) : recvs[j] > 0
    /\ CanRecv(gochannel)
    /\ gochannel' = ChanRecv(gochannel)
    /\ recvs' = [recvs EXCEPT ![k] = @ + 1]
    /\ wpc' = [wpc EXCEPT ![k] = "Done"]
    /\ UNCHANGED <<proc, calls, pc, env, locals, wg, werr, wn, woff, dones, logged,
                   wlen, reads, counts, runs>>

\* line 120: <-gochannel (blocks while the channel is empty)
ReadChunkRecv(k) ==
    /\ proc = "running" /\ wpc[k] = "Recv"
    /\ CanRecv(gochannel)
    /\ gochannel' = ChanRecv(gochannel)
    /\ recvs' = [recvs EXCEPT ![k] = @ + 1]
    /\ wpc' = [wpc EXCEPT ![k] = "Done"]
    /\ UNCHANGED <<proc, calls, pc, env, locals, wg, werr, wn, woff, dones, logged,
                   wlen, reads, counts, runs>>

\* the counter after wg.Done()
WgDone(counter) == counter - 1

\* a completion that also writes the bytes it obtained into the shared plan
ReadChunkDoneMarks(k) ==
    /\ proc = "running" /\ wpc[k] = "Done"
    /\ wg' = WgDone(wg)
    /\ dones' = [dones EXCEPT ![k] = @ + 1]
    /\ wpc' = [wpc EXCEPT ![k] = "ret"]
    /\ chunkOffset' = [chunkOffset EXCEPT ![k + 1] = @ + wn[k]]
    /\ UNCHANGED <<proc, calls, pc, env, e, filesize, concurrency, i, gochannel,
                   werr, wn, woff, recvs, logged, wlen, reads, counts, runs>>

\* line 121: wg.Done(), then the goroutine ends
ReadChunkDone(k) ==
    /\ proc = "running" /\ wpc[k] = "Done"
    /\ wg' = WgDone(wg)
    /\ dones' = [dones EXCEPT ![k] = @ + 1]
    /\ wpc' = [wpc EXCEPT ![k] = "ret"]
    /\ UNCHANGED <<proc, calls, pc, env, locals, gochannel, werr, wn, woff, recvs, logged,
                   wlen, reads, counts, runs>>

readChunk(k) == ReadChunkRead(k) \/ ReadChunkRecv(k) \/ ReadChunkDone(k)

(***************************************************************************)
(* The specifications.                                                     *)
(***************************************************************************)
Next ==
    \/ MainFatal
    \/ Invoke
    \/ Stat
    \/ Plan
    \/ Add
    \/ Send
    \/ Go
    \/ Wait
    \/ \E k \in Indices : ReadChunkRead(k)
    \/ \E k \in Indices : ReadChunkRecv(k)
    \/ \E k \in Indices : ReadChunkDone(k)

Spec == Init /\ [][Next]_vars

\* The Go scheduler runs every goroutine that can take a step: the orchestrating
\* flow and each readChunk goroutine are weakly fair.  Nothing obliges main to
\* call asyncReadFile (again).
FairSpec ==
    /\ Spec
    /\ WF_vars(asyncReadFile)
    /\ \A k \in Indices : WF_vars(readChunk(k))

\* The plan alone, over small file sizes and chunk sizes: asyncReadFile is entered
\* and runs up to the end of its planning (line 88); no chunk is dispatched.
PlanInit ==
    /\ fileSize \in 0 .. MaxPlanFileSize
    /\ chunkSize \in 1 .. MaxPlanChunkSize
    /\ NumCPU = 1
    /\ InitRest

PlanNext ==
    \/ Invoke
    \/ Stat
    \/ Plan

PlanSpec == PlanInit /\ [][PlanNext]_vars

(***************************************************************************)
(* Predicates the properties share.                                        *)
(***************************************************************************)
\* the goroutines of the current plan
Planned == 0 .. (concurrency - 1)

\* asyncReadFile is past its planning: the plan is in chunkOffset
PlanComputed ==
    \/ pc \in {"Add", "Send", "Go", "Wait"}
    \/ pc = "ret" /\ e = "nil"

\* goroutine k has been started and has not received from gochannel
HoldsSlot(k) == wpc[k] # "none" /\ recvs[k] = 0

\* goroutine k has returned from readChunk
Returned(k) == wpc[k] \in {"ret", "errret"}

\* goroutine k has performed its ReadAt
HasRead(k) == wpc[k] \in {"Recv", "Done", "ret", "errret"}

\* the ReadAt of some goroutine has failed with an error other than io.EOF
SomeReadFailed == \E k \in Indices : werr[k] = "err"

\* ceil(size / chunk), by its definition: the least n with n * chunk >= size
Ceil(size, chunk) == CHOOSE n \in 0 .. size : n * chunk >= size /\ (n = 0 \/ (n - 1) * chunk < size)

(***************************************************************************)
(* C1.  In every reachable state the number of tokens in gochannel, and    *)
(* the number of goroutines that have been started and have not received   *)
(* from gochannel, is at most the capacity runtime.NumCPU().               *)
(***************************************************************************)
C1_GateNeverExceedsCapacity ==
    /\ Len(gochannel) <= NumCPU
    /\ Cardinality({k \in Indices : HoldsSlot(k)}) <= NumCPU

\* the gate is full with started goroutines and the dispatch loop is blocked at
\* its send with more chunks to go
C1_Witness ==
    /\ pc = "Send"
    /\ concurrency > NumCPU
    /\ Len(gochannel) = NumCPU
    /\ Cardinality({k \in Indices : HoldsSlot(k)}) = NumCPU

(***************************************************************************)
(* C2.  Every goroutine that has returned from readChunk, after a read     *)
(* that succeeded, hit end-of-file or failed, has received from gochannel  *)
(* exactly once and has called wg.Done exactly once.                       *)
(***************************************************************************)
C2_ReleasesAndSignalsOnEveryPath ==
    \A k \in Indices : Returned(k) => recvs[k] = 1 /\ dones[k] = 1

(***************************************************************************)
(* C3.  Under fair scheduling every invocation of asyncReadFile returns,   *)
(* also when reads fail with an error other than io.EOF.                   *)
(***************************************************************************)
C3_AlwaysReturns == (pc = "Stat") ~> (pc = "ret")

(***************************************************************************)
(* C4.  Under fair scheduling, once the plan is computed a goroutine is    *)
(* eventually started for every planned offset and performs its read,      *)
(* whichever reads fail.                                                   *)
(***************************************************************************)
AllPlannedRead == PlanComputed /\ \A k \in Planned : HasRead(k)

C4_EveryPlannedOffsetIsRead == (pc = "plan") ~> AllPlannedRead

(***************************************************************************)
(* C5.  asyncReadFile has passed wg.Wait only in states where every        *)
(* planned chunk has been dispatched and every dispatched goroutine has    *)
(* returned from readChunk.                                                *)
(***************************************************************************)
C5_ReturnsOnlyAfterAllWorkers ==
    (pc = "ret" /\ e = "nil") =>
        /\ i = concurrency
        /\ concurrency = Len(chunkOffset)
        /\ \A k \in Planned : Returned(k)

\* asyncReadFile has returned from a plan of several chunks, more than the gate holds
C5_Witness ==
    /\ pc = "ret" /\ e = "nil"
    /\ concurrency > NumCPU
    /\ \A k \in Planned : wpc[k] = "ret"

(***************************************************************************)
(* C6.  Under fair scheduling, once the plan is computed, either some read *)
(* fails with an error other than io.EOF or all goroutines of the plan     *)
(* complete (each has called wg.Done) and asyncReadFile returns.           *)
(***************************************************************************)
AllCompleted ==
    /\ pc = "ret" /\ e = "nil"
    /\ \A k \in Planned : wpc[k] = "ret" /\ dones[k] = 1

C6_AllCompleteWithoutFailure == (pc = "plan") ~> (AllCompleted \/ SomeReadFailed)

\* capacity 2, five chunks, no read failed, all five completed
C6_Witness ==
    /\ AllCompleted /\ ~SomeReadFailed
    /\ NumCPU = 2 /\ concurrency = 5

(***************************************************************************)
(* C7.  The plan asyncReadFile computes has ceil(fileSize / chunkSize)     *)
(* offsets, the offset of index k is k * chunkSize, and every offset is    *)
(* less than fileSize.                                                     *)
(***************************************************************************)
C7_PlanCoversFile ==
    PlanComputed =>
        /\ concurrency = Ceil(fileSize, chunkSize)
        /\ Len(chunkOffset) = Ceil(fileSize, chunkSize)
        /\ \A k \in Planned : chunkOffset[k + 1] = k * chunkSize /\ chunkOffset[k + 1] < fileSize

\* a plan of at least three chunks whose last chunk is short
C7_Witness ==
    /\ PlanComputed
    /\ Len(chunkOffset) >= 3
    /\ fileSize % chunkSize # 0

(***************************************************************************)
(* C8.  With an empty file the plan stays empty, nothing is ever sent to   *)
(* gochannel, no goroutine is started, wg stays 0, wg.Wait does not block  *)
(* and, under fair scheduling, asyncReadFile returns.                      *)
(***************************************************************************)
EmptyFileDispatchesNothing ==
    (fileSize = 0) =>
        /\ chunkOffset = <<>> /\ concurrency = 0
        /\ gochannel = <<>>
        /\ wpc = NoPc
        /\ wg = 0
        /\ pc \in {"idle", "Stat", "plan", "Wait", "ret"}
        /\ (pc = "Wait" => ENABLED Wait)

C8_EmptyFile ==
    /\ []EmptyFileDispatchesNothing
    /\ (fileSize = 0 /\ pc = "plan") ~> (pc = "ret" /\ e = "nil")

\* asyncReadFile has returned from reading an empty file
C8_Witness == fileSize = 0 /\ pc = "ret" /\ e = "nil" /\ chunkOffset = <<>>

(***************************************************************************)
(* C9.  A goroutine whose ReadAt returned io.EOF with fewer bytes than     *)
(* requested goes on as after a full read: it is never at the failure      *)
(* return, nothing is logged for it, and when it has returned it has       *)
(* received from gochannel once and called wg.Done once.                   *)
(***************************************************************************)
C9_EOFIsSuccess ==
    \A k \in Indices :
        werr[k] = "EOF" =>
            /\ wn[k] < chunkSize
            /\ wpc[k] \in {"Recv", "Done", "ret"}
            /\ <<"ReadAt", k>> \notin logged
            /\ (wpc[k] = "ret" => recvs[k] = 1 /\ dones[k] = 1)

\* the goroutine of a short last chunk has returned
C9_Witness ==
    \E k \in Indices :
        /\ werr[k] = "EOF" /\ wpc[k] = "ret"
        /\ wn[k] > 0 /\ wn[k] < chunkSize

(***************************************************************************)
(* C10.  A failing file.Stat makes asyncReadFile return at once: the step  *)
(* changes neither gochannel, wg, the plan nor any goroutine and does not  *)
(* end the process, and in the state it returns to nothing is planned,     *)
(* sent or started.                                                        *)
(***************************************************************************)
StatFailureStep ==
    (pc = "Stat" /\ e' = "err") =>
        /\ pc' = "ret"
        /\ proc' = "running"
        /\ UNCHANGED <<wg, gochannel, workers, chunkOffset, concurrency, i>>

ReturnedOnStatFailure ==
    (pc = "ret" /\ e = "err") =>
        /\ proc = "running"
        /\ chunkOffset = <<>> /\ concurrency = 0
        /\ gochannel = <<>>
        /\ wpc = NoPc
        /\ wg = 0

C10_StatFailureAborts == [][StatFailureStep]_vars /\ []ReturnedOnStatFailure

\* asyncReadFile has returned on a Stat failure of a file that has chunks
C10_Witness == pc = "ret" /\ e = "err" /\ fileSize > 0 /\ proc = "running"

(***************************************************************************)
(* C11.  Every call of asyncReadFile starts with wg at 0, an empty         *)
(* gochannel and no goroutine, and any two calls that got past file.Stat   *)
(* and returned have the same plan and the same number of completed        *)
(* goroutines; a later call plans what the earlier calls planned.          *)
(***************************************************************************)
C11_RunsRepeat ==
    /\ (pc = "Stat" =>
            wg = 0 /\ gochannel = <<>> /\ wpc = NoPc /\ registered = 0 /\ sends = 0)
    /\ \A a, b \in 1 .. Len(runs) :
            (runs[a].planned /\ runs[b].planned) =>
                /\ runs[a].plan = runs[b].plan
                /\ runs[a].completed = runs[b].completed
    /\ \A a \in 1 .. Len(runs) :
            (runs[a].planned /\ PlanComputed) => chunkOffset = runs[a].plan

\* two calls have planned and returned, each with several completed goroutines
C11_Witness ==
    /\ Len(runs) = 2
    /\ runs[1].planned /\ runs[2].planned
    /\ runs[1].completed >= 2 /\ runs[2].completed >= 2
    /\ Len(runs[2].plan) >= 2

(***************************************************************************)
(* C12.  Goroutines are started in plan order: the offsets dispatched so   *)
(* far are the first i offsets of the plan, strictly increasing, and a     *)
(* goroutine is started only when those of all lower indices have been.    *)
(***************************************************************************)
C12_DispatchInPlanOrder ==
    /\ Len(dispatched) = i
    /\ \A a \in 1 .. Len(dispatched) : dispatched[a] = chunkOffset[a]
    /\ \A a, b \in 1 .. Len(dispatched) : a < b => dispatched[a] < dispatched[b]
    /\ \A k \in Indices : wpc[k] # "none" => \A j \in 0 .. (k - 1) : wpc[j] # "none"

\* three offsets dispatched; the second goroutine has returned, the first has not read yet
C12_Witness ==
    /\ Len(dispatched) >= 3
    /\ wpc[0] = "ReadAt" /\ wpc[1] = "ret"

(***************************************************************************)
(* C13.  In every reachable state wg equals the number of chunks           *)
(* registered with wg.Add minus the number of goroutines that have         *)
(* returned from readChunk (after a success or a failure), so wg is 0      *)
(* exactly when every registered goroutine has returned.                   *)
(***************************************************************************)
C13_CountTracksOutstanding ==
    /\ wg = registered - Cardinality({k \in Indices : Returned(k)})
    /\ (wg = 0) <=> (\A k \in 0 .. (registered - 1) : Returned(k))

(***************************************************************************)
(* C14.  Every goroutine calls ReadAt at most once, at the offset of its   *)
(* own index; no two goroutines are started for, or read at, the same      *)
(* offset; and when asyncReadFile has returned with no read failed, every  *)
(* planned offset has been read once and nothing else has.                 *)
(***************************************************************************)
C14_OneReadPerOffset ==
    /\ \A k \in Indices : reads[k] <= 1 /\ (HasRead(k) <=> reads[k] = 1)
    /\ \A k \in Indices : reads[k] >= 1 => woff[k] = chunkOffset[k + 1]
    /\ \A j, k \in Indices : (j # k /\ reads[j] >= 1 /\ reads[k] >= 1) => woff[j] # woff[k]
    /\ \A a, b \in 1 .. Len(dispatched) : a # b => dispatched[a] # dispatched[b]
    /\ (pc = "ret" /\ e = "nil" /\ ~SomeReadFailed) =>
            /\ \A k \in Indices : reads[k] = (IF k \in Planned THEN 1 ELSE 0)
            /\ {woff[k] : k \in Planned} = {chunkOffset[a] : a \in 1 .. Len(chunkOffset)}

\* asyncReadFile has returned from a plan of at least three chunks, each read once
C14_Witness ==
    /\ pc = "ret" /\ e = "nil" /\ ~SomeReadFailed
    /\ concurrency >= 3
    /\ \A k \in Planned : reads[k] = 1

(***************************************************************************)
(* C15.  Every ReadAt is given a buffer of chunkSize bytes; a read the     *)
(* device does not fail obtains min(chunkSize, fileSize - offset) bytes;   *)
(* and when all goroutines of the plan have completed the bytes obtained   *)
(* add up to fileSize (a file of 2500000 bytes ends in a chunk of 402848). *)
(***************************************************************************)
Min(a, b) == IF a <= b THEN a ELSE b

RECURSIVE BytesObtained(_)
BytesObtained(n) == IF n = 0 THEN 0 ELSE wn[n - 1] + BytesObtained(n - 1)

C15_ChunksCoverFile ==
    /\ \A k \in Indices : reads[k] >= 1 => wlen[k] = chunkSize
    /\ \A k \in Indices :
            (reads[k] >= 1 /\ werr[k] # "err") => wn[k] = Min(chunkSize, fileSize - woff[k])
    /\ AllCompleted => BytesObtained(concurrency) = fileSize
    /\ (AllCompleted /\ fileSize = 2500000) => (concurrency = 3 /\ wn[2] = 402848)

\* the file of 2500000 bytes has been read: two whole chunks and one of 402848 bytes
C15_Witness ==
    /\ AllCompleted /\ fileSize = 2500000
    /\ wn[0] = asyncChunkSize /\ wn[1] = asyncChunkSize /\ wn[2] = 402848
    /\ werr[2] = "EOF"

(***************************************************************************)
(* C16.  Within a call the orchestrating flow never moves to an earlier    *)
(* phase of Idle, Planning, Dispatching, Draining, Done (a call starts     *)
(* from Idle or Done and enters Planning); it is at wg.Wait only when      *)
(* every planned offset has been dispatched; and it has started no more    *)
(* goroutines than it has sent tokens to gochannel.                        *)
(***************************************************************************)
Phase(p) ==
    CASE p = "idle" -> 0                       \* Idle
      [] p \in {"Stat", "plan"} -> 1           \* Planning
      [] p \in {"Add", "Send", "Go"} -> 2      \* Dispatching
      [] p = "Wait" -> 3                       \* Draining
      [] p = "ret" -> 4                        \* Done

PhaseStep ==
    IF calls' # calls
        THEN Phase(pc) \in {0, 4} /\ Phase(pc') = 1
        ELSE Phase(pc') >= Phase(pc)

DrainsAfterDispatch ==
    /\ pc = "Wait" =>
            /\ i = concurrency
            /\ Len(dispatched) = Len(chunkOffset)
            /\ \A k \in Planned : wpc[k] # "none"
    /\ Len(dispatched) <= sends
    /\ \A k \in Indices : wpc[k] # "none" => k < sends

C16_PhasesInOrder == [][PhaseStep]_vars /\ []DrainsAfterDispatch

\* the flow is draining a plan of several chunks with goroutines still outstanding
C16_Witness == pc = "Wait" /\ concurrency >= 2 /\ wg > 0 /\ sends = concurrency

(***************************************************************************)
(* C17.  Completion order is free: whenever two goroutines are running at  *)
(* the same time, each of them can take its next step whatever the other   *)
(* has done, so either can run to its return first.                        *)
(***************************************************************************)
\* goroutine k has been started and has not returned
Running(k) == wpc[k] \in {"ReadAt", "Recv", "Done"}

C17_CompletionOrderFree ==
    \A j, k \in Indices :
        (j < k /\ Running(j) /\ Running(k)) =>
            (ENABLED readChunk(j)) /\ (ENABLED readChunk(k))

\* the goroutine of a higher offset has returned while one of a lower offset,
\* started before it, still holds its slot and has not even read
C17_Witness ==
    /\ NumCPU >= 2
    /\ \E j, k \in Indices :
            j < k /\ wpc[k] = "ret" /\ wpc[j] = "ReadAt" /\ HoldsSlot(j)

(***************************************************************************)
(* C18.  gochannel always holds at least as many tokens as there are       *)
(* goroutines that have been started and have not received from it (it     *)
(* holds the tokens sent minus those received), so a goroutine that is at  *)
(* its receive can always take it.                                         *)
(***************************************************************************)
RECURSIVE RecvsUpTo(_)
RecvsUpTo(n) == IF n = 0 THEN 0 ELSE recvs[n - 1] + RecvsUpTo(n - 1)

C18_ReleaseNeverBlocks ==
    /\ Len(gochannel) = sends - RecvsUpTo(MaxChunks)
    /\ Len(gochannel) >= Cardinality({k \in Indices : HoldsSlot(k)})
    /\ \A k \in Indices : wpc[k] = "Recv" => CanRecv(gochannel) /\ ENABLED ReadChunkRecv(k)

\* two goroutines hold the two tokens of the channel and both are at their receive
C18_Witness ==
    /\ Len(gochannel) = 2
    /\ \E j, k \in Indices : j # k /\ wpc[j] = "Recv" /\ wpc[k] = "Recv"

(***************************************************************************)
(* C19.  wg never becomes negative: no goroutine calls wg.Done more than   *)
(* once, a goroutine that has called it belongs to a chunk already         *)
(* registered by wg.Add(1), and the calls of wg.Done never outnumber the   *)
(* calls of wg.Add.                                                        *)
(***************************************************************************)
C19_CounterNeverNegative ==
    /\ wg >= 0
    /\ \A k \in Indices : dones[k] <= 1 /\ (dones[k] >= 1 => k < registered)
    /\ DoneUpTo(dones, MaxChunks) <= registered

\* the counter is back at 0 in the middle of the dispatch: every goroutine started
\* so far has called wg.Done and the next wg.Add is still to come
C19_Witness ==
    /\ pc = "Add" /\ i >= 2
    /\ wg = 0
    /\ DoneUpTo(dones, MaxChunks) = registered

(***************************************************************************)
(* C20.  A step of a readChunk goroutine changes nothing of the plan, the  *)
(* file, the dispatch loop or the other goroutines, and of gochannel and   *)
(* wg it changes at most one.                                              *)
(***************************************************************************)
\* goroutine k takes a step of readChunk
WorkerStep(k) ==
    /\ Running(k)
    /\ calls' = calls
    /\ wpc'[k] # wpc[k]

WorkerFrame ==
    \A k \in Indices :
        WorkerStep(k) =>
            /\ UNCHANGED <<chunkOffset, fileSize, chunkSize, NumCPU, i, concurrency, filesize,
                           e, pc, proc, registered, sends, dispatched, runs>>
            /\ \A j \in Indices \ {k} : wpc'[j] = wpc[j] /\ wn'[j] = wn[j] /\ woff'[j] = woff[j]
            /\ (gochannel' = gochannel \/ wg' = wg)

C20_WorkerChangesOnlyGateAndCount == [][WorkerFrame]_vars

\* a goroutine has run through all of readChunk while the dispatch loop is still
\* going, and the plan is what was planned
C20_Witness ==
    /\ pc = "Send" /\ i >= 1
    /\ \E k \in Indices : wpc[k] = "ret"
    /\ chunkOffset = ChunkOffsets(concurrency, chunkSize)

=============================================================================
